---------------------------- MODULE Spec2Model ----------------------------
(***************************************************************************)
(* Model of custom_components/husqvarna_automower/calendar.py:             *)
(* the AutomowerCalendar entity that expands the mower's weekly schedule   *)
(* into calendar events (get_next_event, event, async_get_events) and maps *)
(* a calendar event back to a one-task schedule (async_update_event).      *)
(*                                                                         *)
(* Conventions.  A Python str that the code inspects (the rrule) is a      *)
(* sequence of one-character strings, so that lstrip, split and the        *)
(* substring test are computed as Python computes them.  A timestamp is    *)
(* the number of wall-clock minutes since the local midnight of the anchor *)
(* day (dt_util.start_of_local_day()); the anchor day is the same during   *)
(* a behaviour, and a call happens at any time of it.  Python's None is    *)
(* NoneLoc for the str-typed field loc and None for every other value.     *)
(***************************************************************************)
EXTENDS Integers, Sequences, FiniteSets, TLC

VARIABLES
    tasks,        \* mower_attributes["calendar"]["tasks"]: the device schedule
    anchorWd,     \* dt_util.start_of_local_day().weekday(), Monday = 0
    loc,          \* self.loc
    _event,       \* self._event
    _next_event,  \* self._next_event
    op,           \* the entity method the host called last
    args,         \* the arguments (and collaborator outcomes) of that call
    raised,       \* the exception that call surfaced to its caller, or NoError
    result,       \* the value that call returned, or None
    calls,        \* the collaborator calls that call made, in order
    expansion     \* the event list of the last expansion of the current schedule

vars == <<tasks, anchorWd, loc, _event, _next_event, op, args, raised,
          result, calls, expansion>>

---------------------------------------------------------------------------
(* Bounds of the model. *)

\* the longest schedule the device holds in an initial state
MaxTasks == 2

\* the longest BYDAY list of the rrule-parsing specification
MaxDays == 2

---------------------------------------------------------------------------
(* Python values. *)

None == [none |-> TRUE]

NoneLoc == "None"

NoError == "none"

mower_name == "Automower"

\* the minutes of timedelta(days=1)
MinutesPerDay == 1440

\* the length of range(7)
DaysPerWeek == 7

\* the minutes of one hour: hour * 60 + minute
MinutesPerHour == 60

---------------------------------------------------------------------------
(* const.py: the weekday tables. *)

WEEKDAYS ==
    <<"monday", "tuesday", "wednesday", "thursday", "friday", "saturday",
      "sunday">>

WEEKDAYS_TO_RFC5545 ==
    [monday    |-> <<"M", "O">>,
     tuesday   |-> <<"T", "U">>,
     wednesday |-> <<"W", "E">>,
     thursday  |-> <<"T", "H">>,
     friday    |-> <<"F", "R">>,
     saturday  |-> <<"S", "A">>,
     sunday    |-> <<"S", "U">>]

WeekdayNames == {WEEKDAYS[i] : i \in 1..Len(WEEKDAYS)}

---------------------------------------------------------------------------
(* Python str operations, on sequences of characters. *)

Range(s) == {s[i] : i \in 1..Len(s)}

\* sub in s
Contains(s, sub) ==
    \E i \in 0..(Len(s) - Len(sub)) : SubSeq(s, i + 1, i + Len(sub)) = sub

\* s.lstrip(chars): drop leading characters while they are members of chars
RECURSIVE lstrip(_, _)
lstrip(s, chars) ==
    IF s # <<>> /\ Head(s) \in Range(chars)
    THEN lstrip(Tail(s), chars)
    ELSE s

\* the index of the first sep in s, or 0
RECURSIVE find(_, _, _)
find(s, sep, i) ==
    IF i > Len(s) THEN 0
    ELSE IF s[i] = sep THEN i
    ELSE find(s, sep, i + 1)

\* s.split(sep): never empty, "" splits to [""]
RECURSIVE split(_, _)
split(s, sep) ==
    LET i == find(s, sep, 1)
    IN  IF i = 0 THEN <<s>>
        ELSE <<SubSeq(s, 1, i - 1)>> \o split(SubSeq(s, i + 1, Len(s)), sep)

\* sep.join(parts)
RECURSIVE join(_, _)
join(parts, sep) ==
    IF parts = <<>> THEN <<>>
    ELSE IF Len(parts) = 1 THEN parts[1]
    ELSE parts[1] \o <<sep>> \o join(Tail(parts), sep)

\* the literals of the module
STR_WEEKLY == <<"W", "E", "E", "K", "L", "Y">>

STR_BYDAY == <<"B", "Y", "D", "A", "Y">>

STR_STRIP == <<"F", "R", "E", "Q", "=", "W", "E", "K", "L", "Y", ";", "B",
               "D", "A", "=">>

STR_RRULE_PREFIX == <<"F", "R", "E", "Q", "=", "W", "E", "E", "K", "L", "Y",
                      ";", "B", "Y", "D", "A", "Y", "=">>

STR_FREQ_DAILY == <<"F", "R", "E", "Q", "=", "D", "A", "I", "L", "Y">>

STR_FREQ_WEEKLY == <<"F", "R", "E", "Q", "=">> \o STR_WEEKLY

---------------------------------------------------------------------------
(* The device schedule and the values the host passes in. *)

\* one task of mower_attributes["calendar"]["tasks"]: start, duration and
\* one boolean per weekday name, true for the names in flagged
Task(start, duration, flagged) ==
    [k \in {"start", "duration"} \cup WeekdayNames |->
        IF k = "start" THEN start
        ELSE IF k = "duration" THEN duration
        ELSE k \in flagged]

SampleTasks ==
    {Task(480, 120, {"wednesday"}),
     Task(480, 60, WeekdayNames),
     Task(0, 0, {}),
     Task(1439, 30, {"monday", "sunday"})}

RECURSIVE SeqsUpTo(_, _)
SeqsUpTo(S, n) ==
    IF n = 0 THEN {<<>>}
    ELSE LET shorter == SeqsUpTo(S, n - 1)
         IN  shorter \cup {Append(q, x) : q \in shorter, x \in S}

InitialSchedules == SeqsUpTo(SampleTasks, MaxTasks)

\* the schedules the update-path specification starts from
PriorTasks == {Task(480, 120, {"wednesday"}), Task(1439, 30, {"monday", "sunday"})}

PriorSchedules == SeqsUpTo(PriorTasks, MaxTasks)

NowTimes == {0, 720, 1439}

\* a datetime's time of day
Time(h, m) == [hour |-> h, minute |-> m]

DayTimes == {Time(8, 0), Time(10, 30), Time(23, 59)}

Uids == {mower_name \o "-1", mower_name \o "-2"}

RecurringRrules ==
    {STR_FREQ_DAILY,
     STR_FREQ_DAILY \o <<";">> \o STR_BYDAY \o <<"=", "M", "O">>,
     STR_FREQ_WEEKLY,
     STR_RRULE_PREFIX \o <<"M", "O", ",", "W", "E">>}

\* the event dicts the host passes to async_update_event: the rrule key is
\* absent for an event that does not recur
UpdateEvents ==
    {[dtstart |-> s, dtend |-> e] : s \in DayTimes, e \in DayTimes}
    \cup {[dtstart |-> s, dtend |-> e, rrule |-> r] :
            s \in DayTimes, e \in DayTimes, r \in RecurringRrules}

\* the update events of the whole-entity specification: 08:00 to 10:30,
\* not recurring, weekly without days, weekly on Monday and Wednesday
FewEvents ==
    {[dtstart |-> Time(8, 0), dtend |-> Time(10, 30)],
     [dtstart |-> Time(8, 0), dtend |-> Time(10, 30), rrule |-> STR_FREQ_WEEKLY],
     [dtstart |-> Time(8, 0), dtend |-> Time(10, 30),
      rrule |-> STR_RRULE_PREFIX \o <<"M", "O", ",", "W", "E">>]}

\* the BYDAY lists of distinct day codes, of 1..MaxDays codes
DayCodes == {WEEKDAYS_TO_RFC5545[d] : d \in WeekdayNames}

DayCodeLists ==
    {q \in SeqsUpTo(DayCodes, MaxDays) :
        q # <<>> /\ \A i, j \in 1..Len(q) : i # j => q[i] # q[j]}

WeeklyEvents ==
    {[dtstart |-> Time(8, 0), dtend |-> Time(10, 30),
      rrule |-> STR_RRULE_PREFIX \o join(q, ",")] : q \in DayCodeLists}

\* what the geocoding collaborator does with one reverse lookup
GeoOutcomes == {"address", "raises", "no_result", "missing_fields"}

\* f"{road} {house_number}, {town}" of the address the lookup returns
Address == "Road 1, Town"

\* what session.action does with one submission
ActionOutcomes == {"ok", "ClientResponseError"}

---------------------------------------------------------------------------
(* get_next_event: the expansion of the schedule. *)

\* the synthetic event of lines 74-80; rrule and uid are not given
Placeholder ==
    [summary     |-> "",
     start       |-> DaysPerWeek * MinutesPerDay,
     end         |-> DaysPerWeek * MinutesPerDay + 2 * MinutesPerHour,
     location    |-> "",
     description |-> "Good time to mow"]

\* a variant that takes the weekday of the anchor day for every offset
Weekday_OfAnchor(wd, days) == wd

\* the weekday of start_of_day + timedelta(days=days)
Weekday(wd, days) == (wd + days) % DaysPerWeek

\* the CalendarEvent of lines 98-106 for the task of 0-based index task
CalendarEvent(calendar, task, days, wd, location) ==
    LET start_mowing   == calendar["start"]
        end_mowing     == calendar["start"] + calendar["duration"]
        today_as_string == WEEKDAYS[Weekday(wd, days) + 1]
        today_rfc      == WEEKDAYS_TO_RFC5545[today_as_string]
    IN  [summary     |-> mower_name \o " Mowing schedule " \o ToString(task + 1),
         start       |-> start_mowing + days * MinutesPerDay,
         end         |-> end_mowing + days * MinutesPerDay,
         location    |-> location,
         rrule       |-> STR_RRULE_PREFIX \o today_rfc,
         uid         |-> mower_name \o "-" \o ToString(task + 1),
         description |-> "Nice day to mow"]

\* a variant in which an event of equal start replaces the next event
IsEarlier_OrEqual(ev, next) == ev.start <= next.start

\* line 107: the new event replaces the next event
IsEarlier(ev, next) == ev.start < next.start

\* lines 93-110: the loop over range(7) for one task, from offset days on
RECURSIVE DayLoop(_, _, _, _, _, _)
DayLoop(calendar, task, days, wd, location, st) ==
    IF days >= DaysPerWeek THEN st
    ELSE LET today_as_string == WEEKDAYS[Weekday(wd, days) + 1]
             ev == CalendarEvent(calendar, task, days, wd, location)
             st2 == IF calendar[today_as_string] = TRUE
                    THEN [event_list |-> Append(st.event_list, ev),
                          ev         |-> ev,
                          next       |-> IF IsEarlier(ev, st.next)
                                         THEN ev ELSE st.next]
                    ELSE st
         IN  DayLoop(calendar, task, days + 1, wd, location, st2)

\* lines 83-110: the loop over the tasks, from 0-based index task on
RECURSIVE TaskLoop(_, _, _, _, _)
TaskLoop(schedule, task, wd, location, st) ==
    IF task >= Len(schedule) THEN st
    ELSE TaskLoop(schedule, task + 1, wd, location,
                  DayLoop(schedule[task + 1], task, 0, wd, location, st))

\* a variant that keeps the event of the call before in the list
get_next_event_Keeping(schedule, wd, location, ev0) ==
    TaskLoop(schedule, 0, wd, location,
             [event_list |-> IF ev0 = None THEN <<>> ELSE <<ev0>>,
              ev |-> ev0, next |-> Placeholder])

\* lines 72-112: event_list, and self._event and self._next_event after it
get_next_event(schedule, wd, location, ev0) ==
    TaskLoop(schedule, 0, wd, location,
             [event_list |-> <<>>, ev |-> ev0, next |-> Placeholder])

---------------------------------------------------------------------------
(* The queries. *)

\* lines 63-67: self.loc after a reverse lookup that returned (did not raise)
Location(geo) == IF geo = "address" THEN Address ELSE NoneLoc

\* lines 55-70 and 114-118: the host asks for the events of a date range.
\* The lookup of line 63 is outside the try of lines 64-67.
async_get_events(geo) ==
    /\ op' = "async_get_events"
    /\ args' = [geo |-> geo]
    /\ calls' = <<[fn |-> "reverse"]>>
    /\ IF geo = "raises"
       THEN /\ raised' = "GeocoderServiceError"
            /\ result' = None
            /\ UNCHANGED <<loc, _event, _next_event, expansion>>
       ELSE LET r == get_next_event(tasks, anchorWd, Location(geo), _event)
            IN  /\ raised' = NoError
                /\ loc' = Location(geo)
                /\ _event' = r.ev
                /\ _next_event' = r.next
                /\ result' = r.event_list
                /\ expansion' = [valid |-> TRUE, event_list |-> r.event_list]
    /\ UNCHANGED <<tasks, anchorWd>>

\* lines 120-124: the host reads the entity's event property, t minutes
\* after the anchor midnight
event(t) ==
    LET r == get_next_event(tasks, anchorWd, loc, _event)
    IN  /\ op' = "event"
        /\ args' = [now |-> t]
        /\ calls' = <<>>
        /\ raised' = NoError
        /\ _event' = r.ev
        /\ _next_event' = r.next
        /\ result' = r.next
        /\ expansion' = [valid |-> TRUE, event_list |-> r.event_list]
        /\ UNCHANGED <<tasks, anchorWd, loc>>

---------------------------------------------------------------------------
(* async_update_event. *)

\* a variant that looks for BYDAY before WEEKLY
Validate_DaysFirst(ev) ==
    IF "rrule" \notin DOMAIN ev THEN "Only reccuring events are allowed"
    ELSE IF ~Contains(ev["rrule"], STR_BYDAY) THEN "Please select day(s)"
    ELSE IF ~Contains(ev["rrule"], STR_WEEKLY) THEN "Please select weekly"
    ELSE NoError

\* lines 135-143: the reason of the vol.Invalid raised, or NoError
Validate(ev) ==
    IF "rrule" \notin DOMAIN ev THEN "Only reccuring events are allowed"
    ELSE IF ~Contains(ev["rrule"], STR_WEEKLY) THEN "Please select weekly"
    ELSE IF ~Contains(ev["rrule"], STR_BYDAY) THEN "Please select day(s)"
    ELSE NoError

\* lines 144-145
day_list(ev) == split(lstrip(ev["rrule"], STR_STRIP), ",")

\* lines 149-151
start_time_minutes(ev) ==
    ev["dtstart"].hour * MinutesPerHour + ev["dtstart"].minute

\* line 152
end_time_minutes(ev) == ev["dtend"].hour * MinutesPerHour + ev["dtend"].minute

\* a variant that takes the end time for the duration
duration_EndTime(ev) == end_time_minutes(ev)

\* line 153
duration(ev) == end_time_minutes(ev) - start_time_minutes(ev)

\* lines 154-162: the task dict
addition(ev) ==
    LET codes == Range(day_list(ev))
    IN  [k \in {"start", "duration"} \cup WeekdayNames |->
            IF k = "start" THEN start_time_minutes(ev)
            ELSE IF k = "duration" THEN duration(ev)
            ELSE WEEKDAYS_TO_RFC5545[k] \in codes]

\* lines 148 and 163
task_list(ev) == <<addition(ev)>>

\* lines 166-172: the payload, before json.dumps
Payload(ev) ==
    [data |-> [type |-> "calendar", attributes |-> [tasks |-> task_list(ev)]]]

\* a variant that asks for the refresh only after a submission that succeeded
UpdateCalls_RefreshOnSuccess(payload, outcome) ==
    <<[fn |-> "action", payload |-> payload, command_type |-> "calendar",
       outcome |-> outcome]>>
    \o (IF outcome = "ok"
        THEN <<[fn |-> "async_update_ha_state", force_refresh |-> TRUE]>>
        ELSE <<>>)

\* lines 173-177: the collaborator calls of an accepted update, in order
UpdateCalls(payload, outcome) ==
    <<[fn |-> "action", payload |-> payload, command_type |-> "calendar",
       outcome |-> outcome],
      [fn |-> "async_update_ha_state", force_refresh |-> TRUE]>>

\* lines 173-176: the exception of session.action that reaches the caller;
\* only a ClientResponseError is caught
Surfaced(outcome) ==
    IF outcome \in {"ok", "ClientResponseError"} THEN NoError ELSE outcome

\* the Command Channel: a submission that succeeds replaces the device
\* schedule by the tasks of the payload, one that fails leaves it as it was
CommandChannel(schedule, payload, outcome) ==
    IF outcome = "ok" THEN payload.data.attributes.tasks ELSE schedule

\* lines 126-177: the host submits the update of an event; args.before is
\* the number of tasks of the schedule at the call
async_update_event(uid, ev, outcome) ==
    LET error   == Validate(ev)
        payload == Payload(ev)
    IN  /\ op' = "async_update_event"
        /\ args' = [uid |-> uid, event |-> ev, before |-> Len(tasks)]
        /\ result' = None
        /\ IF error # NoError
           THEN /\ raised' = error
                /\ calls' = <<>>
                /\ UNCHANGED <<tasks, expansion>>
           ELSE /\ raised' = Surfaced(outcome)
                /\ calls' = UpdateCalls(payload, outcome)
                /\ tasks' = CommandChannel(tasks, payload, outcome)
                /\ expansion' = IF outcome = "ok" THEN [valid |-> FALSE]
                                ELSE expansion
        /\ UNCHANGED <<anchorWd, loc, _event, _next_event>>

---------------------------------------------------------------------------
(* The specifications. *)

\* lines 46-53, for every schedule of the device and every anchor weekday
Init ==
    /\ tasks \in InitialSchedules
    /\ anchorWd \in 0..(DaysPerWeek - 1)
    /\ loc = NoneLoc
    /\ _event = None
    /\ _next_event = None
    /\ op = "__init__"
    /\ args = None
    /\ raised = NoError
    /\ result = None
    /\ calls = <<>>
    /\ expansion = [valid |-> FALSE]

\* the whole entity, with few update events
Next ==
    \/ \E geo \in GeoOutcomes : async_get_events(geo)
    \/ \E t \in NowTimes : event(t)
    \/ \E ev \in FewEvents, outcome \in ActionOutcomes :
          async_update_event(mower_name \o "-1", ev, outcome)

Spec == Init /\ [][Next]_vars

\* the update path alone, over every pair of times of DayTimes
InitUpdate ==
    /\ Init
    /\ tasks \in PriorSchedules
    /\ anchorWd = 0

NextUpdate ==
    \E uid \in Uids, ev \in UpdateEvents, outcome \in ActionOutcomes :
        async_update_event(uid, ev, outcome)

SpecUpdate == InitUpdate /\ [][NextUpdate]_vars

\* the update path alone, over every BYDAY list of distinct day codes
InitRrule ==
    /\ Init
    /\ tasks = <<>>
    /\ anchorWd = 0

NextRrule ==
    \E ev \in WeeklyEvents, outcome \in ActionOutcomes :
        async_update_event(mower_name \o "-1", ev, outcome)

SpecRrule == InitRrule /\ [][NextRrule]_vars

---------------------------------------------------------------------------
(* What the properties speak of. *)

\* the rrule has the shape that passes the three checks of the update
PassesValidation(ev) ==
    /\ "rrule" \in DOMAIN ev
    /\ Contains(ev["rrule"], STR_WEEKLY)
    /\ Contains(ev["rrule"], STR_BYDAY)

\* the last call was an update that passed validation
AcceptedUpdate == op = "async_update_event" /\ PassesValidation(args.event)

\* the task list of the payload handed to the Command Channel
Submitted == calls[1].payload.data.attributes.tasks

\* the day codes an rrule "FREQ=WEEKLY;BYDAY=<codes>" lists
ByDayCodes(rrule) ==
    Range(split(SubSeq(rrule, Len(STR_RRULE_PREFIX) + 1, Len(rrule)), ","))

\* the weekday flag of task i of the schedule, offset days after the anchor
Flagged(i, offset) ==
    tasks[i][WEEKDAYS[((anchorWd + offset) % DaysPerWeek) + 1]] = TRUE

\* the (task, day offset) pairs whose flag is true
FlaggedPairs ==
    {p \in (1..Len(tasks)) \X (0..(DaysPerWeek - 1)) : Flagged(p[1], p[2])}

\* the place of the pair in (task, then day offset) order
Rank(i, offset) ==
    Cardinality({p \in FlaggedPairs :
                    p[1] < i \/ (p[1] = i /\ p[2] <= offset)})

\* some task of the schedule runs on some weekday
SomeFlag == \E i \in 1..Len(tasks), n \in WeekdayNames : tasks[i][n] = TRUE

---------------------------------------------------------------------------
(* The properties. *)

\* C1: an accepted update "FREQ=WEEKLY;BYDAY=<distinct day codes>" submits
\* one task whose flag of weekday d is true exactly when the code of d is in
\* the list
C1_FlagsMatchByday ==
    AcceptedUpdate =>
        /\ Len(calls) >= 1
        /\ Len(Submitted) = 1
        /\ \A d \in WeekdayNames :
              Submitted[1][d] =
                  (WEEKDAYS_TO_RFC5545[d] \in ByDayCodes(args.event["rrule"]))

\* C2: an update is rejected for the first of: no rrule, no WEEKLY in it, no
\* BYDAY in it; a rejected call submits nothing, asks for no refresh and
\* leaves the device schedule as it was
C2_RejectedInOrder ==
    [][(op' = "async_update_event" /\ ~PassesValidation(args'.event)) =>
          /\ raised' =
                (IF "rrule" \notin DOMAIN args'.event
                 THEN "Only reccuring events are allowed"
                 ELSE IF ~Contains(args'.event["rrule"], STR_WEEKLY)
                 THEN "Please select weekly"
                 ELSE "Please select day(s)")
          /\ calls' = <<>>
          /\ tasks' = tasks]_vars

\* C2: an rrule with BYDAY but without WEEKLY was rejected for not being
\* weekly, with two tasks in the schedule
C2_Witness ==
    /\ op = "async_update_event"
    /\ "rrule" \in DOMAIN args.event
    /\ Contains(args.event["rrule"], STR_BYDAY)
    /\ raised = "Please select weekly"
    /\ calls = <<>>
    /\ Len(tasks) = 2

\* C3: an accepted update submits exactly one task, with the start and the
\* duration of the event's times of day; after a submission that succeeded
\* the device schedule is that one task
C3_OneTaskReplacesSchedule ==
    AcceptedUpdate =>
        /\ Len(calls) >= 1
        /\ calls[1].fn = "action"
        /\ Len(Submitted) = 1
        /\ Submitted[1]["start"] =
              args.event["dtstart"].hour * 60 + args.event["dtstart"].minute
        /\ Submitted[1]["duration"] =
              (args.event["dtend"].hour * 60 + args.event["dtend"].minute)
              - Submitted[1]["start"]
        /\ (calls[1].outcome = "ok" => tasks = Submitted)

\* C3: the update 08:00 to 10:30 on Monday and Wednesday succeeded on a
\* schedule of two tasks, and the schedule is the one task 480, 150
C3_Witness ==
    /\ AcceptedUpdate
    /\ args.before = 2
    /\ args.event["dtstart"] = Time(8, 0)
    /\ args.event["dtend"] = Time(10, 30)
    /\ calls[1].outcome = "ok"
    /\ tasks = <<Task(480, 150, {"monday", "wednesday"})>>

\* C4: the expansion is, in (task, then day offset) order, one event per
\* (task, offset) pair whose weekday flag is true, with the start, end,
\* rrule, uid and summary of that pair
C4_ExpansionIsFlaggedPairs ==
    expansion.valid =>
        /\ Len(expansion.event_list) = Cardinality(FlaggedPairs)
        /\ \A p \in FlaggedPairs :
              LET e == expansion.event_list[Rank(p[1], p[2])]
                  code == WEEKDAYS_TO_RFC5545[
                              WEEKDAYS[((anchorWd + p[2]) % 7) + 1]]
              IN  /\ e.start = tasks[p[1]]["start"] + p[2] * 1440
                  /\ e.end = e.start + tasks[p[1]]["duration"]
                  /\ e.rrule = STR_RRULE_PREFIX \o code
                  /\ e.uid = mower_name \o "-" \o ToString(p[1])
                  /\ e.summary =
                        mower_name \o " Mowing schedule " \o ToString(p[1])

\* C4: on a Friday, a task without a flag followed by the task 08:00 for
\* 120 minutes on Wednesday expand to the one event of task 2, five days on
C4_Witness ==
    /\ expansion.valid
    /\ anchorWd = 4
    /\ tasks = <<Task(0, 0, {}), Task(480, 120, {"wednesday"})>>
    /\ Len(expansion.event_list) = 1
    /\ expansion.event_list[1].start = 480 + 5 * 1440
    /\ expansion.event_list[1].end = expansion.event_list[1].start + 120
    /\ expansion.event_list[1].rrule = STR_RRULE_PREFIX \o <<"W", "E">>
    /\ expansion.event_list[1].uid = mower_name \o "-2"

\* C5: the event property returns an event: the placeholder seven days after
\* the anchor midnight when the expansion is empty, else the first event of
\* the expansion among those of the least start
C5_NextIsFirstMinimum ==
    op = "event" =>
        /\ result # None
        /\ IF expansion.event_list = <<>>
           THEN /\ result.start = 7 * 1440
                /\ result.description = "Good time to mow"
           ELSE \E k \in 1..Len(expansion.event_list) :
                   /\ result = expansion.event_list[k]
                   /\ \A j \in 1..Len(expansion.event_list) :
                         /\ expansion.event_list[j].start >= result.start
                         /\ j < k =>
                               expansion.event_list[j].start > result.start

\* C5: two different events share the least start, and the event property
\* returned the one that comes first
C5_Witness ==
    /\ op = "event"
    /\ \E j, k \in 1..Len(expansion.event_list) :
          /\ j < k
          /\ expansion.event_list[j] # expansion.event_list[k]
          /\ expansion.event_list[j].start = expansion.event_list[k].start
          /\ result = expansion.event_list[j]
          /\ \A i \in 1..Len(expansion.event_list) :
                expansion.event_list[i].start >= result.start

\* C6: a range query whose reverse lookup fails (it raises, finds nothing,
\* or finds an address without the fields) returns the expansion with the
\* location absent, never an error
C6_LookupFailureSuppressed ==
    (op = "async_get_events" /\ args.geo # "address") =>
        /\ raised = NoError
        /\ loc = NoneLoc
        /\ expansion.valid
        /\ result = expansion.event_list
        /\ \A k \in 1..Len(result) : result[k].location = NoneLoc

C8_ExpansionIsPure ==
    [][(expansion.valid /\ expansion'.valid) =>
          expansion'.event_list = expansion.event_list]_vars

\* C8 as amended: two successive expansions of the same schedule on the same
\* anchor day with the same value of loc are the same list, field for field,
\* and the location of every event of an expansion is the value of loc
C8_ExpansionPureGivenLoc ==
    [][/\ (expansion.valid /\ expansion'.valid /\ loc' = loc) =>
             expansion'.event_list = expansion.event_list
       /\ expansion'.valid =>
             \A k \in 1..Len(expansion'.event_list) :
                expansion'.event_list[k].location = loc']_vars

\* C8: the event property returned an event that carries the address a
\* range query before it had looked up
C8_Witness ==
    /\ op = "event"
    /\ expansion.valid
    /\ loc = Address
    /\ _event # None
    /\ result.location = Address

\* C9: with some weekday flagged, the event the event property returns does
\* not end before the current time
C9_NextNotOver ==
    (op = "event" /\ SomeFlag) => result.end >= args.now

\* C10: the task of an accepted update has 0 <= start <= 1439 and
\* duration >= 0
C10_TaskInDataModel ==
    AcceptedUpdate =>
        /\ Len(calls) >= 1
        /\ \A i \in 1..Len(Submitted) :
              /\ Submitted[i]["start"] \in 0..1439
              /\ Submitted[i]["duration"] >= 0

===========================================================================
